---- MODULE Spec2Model ----
(***************************************************************************)
(* A model of backend/server.js: the HTTP API (rate limiters, the five     *)
(* workspace endpoints), the workspace manager (DevPodManager in the real  *)
(* server, MockDevPodManager in the local one) and the WebSocket relay;    *)
(* and of the chat UI, frontend/src/App.tsx.                               *)
(*                                                                         *)
(* Node runs one handler at a time and switches handlers only at an        *)
(* `await`, so every action below is one run of a handler from an event    *)
(* (a request or message arriving, an external call completing) up to its  *)
(* next await or its end.                                                  *)
(*                                                                         *)
(* Strings that the code inspects or concatenates are sequences of         *)
(* one-character strings; a field that is absent from a JSON body is       *)
(* Undefined.                                                              *)
(***************************************************************************)
EXTENDS Integers, Sequences, FiniteSets, TLC

VARIABLES
    variant,                \* "real" (DevPodManager) or "mock" (MockDevPodManager)
    toolPresent,            \* whether the devpod CLI is installed (real server's host)
    earlierCreates,         \* create requests the client made earlier in this hour
    now,                    \* the reading of Date.now()
    apiHits,                \* hits counted by `limiter` in the current window
    createHits,             \* hits counted by `workspaceCreationLimiter`
    reqs,                   \* the HTTP requests received, in order of arrival
    repos,                  \* names of the repositories GitHub holds
    pods,                   \* the workspaces devpod holds: id -> status
    workspaces,             \* MockDevPodManager.workspaces: id -> status
    sockState,              \* per socket: "new", "open" or "closed"
    connectionWorkspaceId,  \* per socket: the closure variable of its handlers
    activeConnections,      \* the Map workspace id -> socket
    log,                    \* per socket: messages received and sent, in order
    tasks,                  \* chat handlers of the relay awaiting a call
    workspaceStatus,        \* App.tsx state: 'idle', 'creating', 'ready' or 'error'
    uiWorkspaceId,          \* App.tsx state workspaceId (Undefined for null)
    wsConnection,           \* App.tsx state: whether it holds a WebSocket
    readyState,             \* of that WebSocket: "CONNECTING", "OPEN" or "CLOSED"
    inputMessage,           \* App.tsx state: the text in the input box
    isTyping,               \* App.tsx state
    messages,               \* App.tsx state: the bubbles of the chat view
    sendCalls               \* the calls of send on the UI's WebSocket, in order

vars == <<variant, toolPresent, earlierCreates, now, apiHits, createHits, reqs, repos, pods,
          workspaces, sockState, connectionWorkspaceId, activeConnections,
          log, tasks, workspaceStatus, uiWorkspaceId, wsConnection, readyState,
          inputMessage, isTyping, messages, sendCalls>>

hostVars == <<variant, toolPresent, earlierCreates>>
httpVars == <<apiHits, createHits, reqs>>
worldVars == <<repos, pods, workspaces>>
relayVars == <<sockState, connectionWorkspaceId, activeConnections, log, tasks>>
uiVars == <<workspaceStatus, uiWorkspaceId, wsConnection, readyState, inputMessage,
            isTyping, messages, sendCalls>>
serverVars == <<hostVars, now, httpVars, worldVars, relayVars>>

----------------------------------------------------------------------------
(* Bounds of the model *)

MaxReqs == 2        \* HTTP requests per behaviour
MaxClock == 1       \* readings of the clock after the first
MaxEvents == 3      \* client events the relay server handles per behaviour
MaxBubbles == 3     \* bubbles in the chat view of the UI

(* Constants of the program *)

ApiMax == 100       \* limiter: max
CreateMax == 5      \* workspaceCreationLimiter: max

----------------------------------------------------------------------------
(* Values *)

Undefined == <<"undefined">>
Empty == <<>>
Absent == "absent"

\* JavaScript's !v for a string or a missing field
Falsy(v) == v = Undefined \/ v = Empty

UserIds == {<<"a">>, <<"b">>}
ProjectNames == {<<"p">>}
Messages == {<<"h", "i">>}
W1 == <<"w", "1">>
W2 == <<"w", "2">>
SocketWids == {W1, W2}
Sockets == {1, 2}

DigitChars == <<"0", "1", "2", "3", "4", "5", "6", "7", "8", "9">>

RECURSIVE Digits(_)
\* the decimal digits of n, as the template literal prints a number
Digits(n) == IF n < 10 THEN <<DigitChars[n + 1]>>
             ELSE Digits(n \div 10) \o <<DigitChars[(n % 10) + 1]>>

\* `workspace-${userId}-${Date.now()}`
MakeWorkspaceId(userId, t) ==
    <<"w", "o", "r", "k", "s", "p", "a", "c", "e", "-">> \o userId \o <<"-">> \o Digits(t)

\* A JSON body. Every key the model tracks is a field; a key the object
\* does not have is Absent. wsStatus is the key `status`, rtype the key `type`.
Body(success, error, response, rtype, wsStatus) ==
    [success |-> success, error |-> error, response |-> response,
     rtype |-> rtype, wsStatus |-> wsStatus]

NoBody == Body(Absent, Absent, Absent, Absent, Absent)

\* What a call of an async method comes to: a returned value or an exception.
Return(val) == [kind |-> "return", val |-> val, err |-> Absent]
Throw(err) == [kind |-> "throw", val |-> NoBody, err |-> err]
NoReturn == [kind |-> "none", val |-> NoBody, err |-> Absent]

Min(a, b) == IF a < b THEN a ELSE b

\* Map.set, Map.delete
Put(map, key, value) == [k \in DOMAIN map \cup {key} |-> IF k = key THEN value ELSE map[k]]
Remove(map, key) == [k \in DOMAIN map \ {key} |-> map[k]]
EmptyMap == [k \in {} |-> Absent]

CountHit(hits, max) == Min(hits + 1, max + 1)

----------------------------------------------------------------------------
(* The workspace manager: DevPodManager (real) and MockDevPodManager (mock) *)

\* Outcomes of `which devpod`: it prints a path ("found"), exits non-zero
\* because the tool is not installed ("missing"), or cannot be run ("failed").
ProbeOutcomes == IF toolPresent THEN {"found", "failed"} ELSE {"missing"}

\* A fault the properties must detect: the probe without .catch(() => null)
\* and without the test of its output, so that a probe that could not be
\* run counts as the tool being there
DevpodNotMissing(outcome) == outcome # "missing"

\* devpodCheck && devpodCheck.stdout.trim(); a rejected probe was turned
\* into null by .catch(() => null)
DevpodFound(outcome) == outcome = "found"

\* createWorkspace without its try/catch (a fault the properties must detect)
CreateWorkspaceRethrow(err) == Throw(err)

\* createWorkspace, catch block
CreateWorkspaceCatch(err) ==
    Return(Body("false", err, Absent, Absent, Absent))

\* createWorkspace, the two success values (status: 'created')
CreateWorkspaceOk == Return(Body("true", Absent, Absent, Absent, "created"))

\* executeInWorkspace without its try/catch (a fault the properties must detect)
ExecuteRethrow(err) == Throw(err)

\* executeInWorkspace, catch block
ExecuteCatch(err) ==
    Return(Body("false", err, "I encountered an error processing your request.",
                Absent, Absent))

\* getWorkspaceStatus, catch block
StatusCatch(err) == Return(Body(Absent, err, Absent, Absent, "error"))

\* getWorkspaceStatus: workspace || { status: 'not_found' }, the workspace
\* looked up in the parsed `devpod list` (real) or in this.workspaces (mock)
StatusFound(known, workspaceId) ==
    IF workspaceId \in DOMAIN known
    THEN Return(Body(Absent, Absent, Absent, Absent, known[workspaceId]))
    ELSE Return(Body(Absent, Absent, Absent, Absent, "not_found"))

\* stopWorkspace and deleteWorkspace
StopCatch(err) == Return(Body("false", err, Absent, Absent, Absent))
DeleteCatch(err) == Return(Body("false", err, Absent, Absent, Absent))
ManagerOk == Return(Body("true", Absent, Absent, Absent, Absent))

(* executeInWorkspace as a state machine. An invocation is a record:
   pc ("probe", "ssh", "llm", "done"), the number of probes, devpod ssh
   subprocesses and LLM HTTP calls it has issued, the outcome of its probe,
   and failure, the message of the error thrown inside the try block
   (Absent when nothing was thrown). *)
NoEx == [pc |-> "none", probes |-> 0, sshs |-> 0, llms |-> 0,
         probe |-> Absent, failure |-> Absent]

ExecStart ==
    IF variant = "real"
    THEN [NoEx EXCEPT !.pc = "probe", !.probes = 1]
    ELSE [NoEx EXCEPT !.pc = "llm", !.llms = 1]

\* A fault the properties must detect: both branches issue their call
ExecAfterProbeBoth(ex, outcome) ==
    [ex EXCEPT !.pc = IF DevpodFound(outcome) THEN "ssh" ELSE "llm",
               !.sshs = @ + 1, !.llms = @ + 1, !.probe = outcome]

\* if (devpodCheck && devpodCheck.stdout.trim()) { devpod ssh } else { axios.post }
ExecAfterProbe(ex, outcome) ==
    IF DevpodFound(outcome)
    THEN [ex EXCEPT !.pc = "ssh", !.sshs = @ + 1, !.probe = outcome]
    ELSE [ex EXCEPT !.pc = "llm", !.llms = @ + 1, !.probe = outcome]

\* What the awaited call can come to. The subprocess fails, or prints a JSON
\* object (one of them with a key `type`), or prints something JSON.parse
\* rejects; the HTTP call fails or answers.
SshOutcomes == {"exec_error", "json_ok", "json_typed", "garbage"}
LlmOutcomes == {"http_ok", "http_error"}

DispatchOutcomes(ex) == IF ex.pc = "ssh" THEN SshOutcomes ELSE LlmOutcomes

\* The message of the error an outcome throws inside the try block
FailureOf(outcome) ==
    CASE outcome = "exec_error" -> "Command failed: devpod ssh"
      [] outcome = "garbage" -> "Unexpected token in JSON"
      [] outcome = "http_error" -> "Request failed with status code 401"
      [] OTHER -> Absent

ExecFinish(ex, outcome) == [ex EXCEPT !.pc = "done", !.failure = FailureOf(outcome)]

\* The completion of executeInWorkspace
ExecResult(outcome) ==
    CASE outcome = "json_ok" -> Return(Body("true", Absent, "text", Absent, Absent))
      [] outcome = "json_typed" -> Return(Body("true", Absent, "text", "log", Absent))
      [] outcome = "http_ok" -> Return(Body("true", Absent, "text", Absent, Absent))
      [] OTHER -> ExecuteCatch(FailureOf(outcome))

----------------------------------------------------------------------------
(* The HTTP API *)

(* A request: what the client sent (kind, userId, projectName, the URL
   parameter or generated id wid, message), where its handler stands (pc),
   the executeInWorkspace invocation of a chat (ex), the response (status is
   0 until one is sent), and how many times the handler has called
   octokit.repos.createUsingTemplate (repoCalls) and devpod.createWorkspace
   (provCalls); mode is the `mode` of the workspace a create answered with.
   ret is what the workspace manager's method came to, and opError the
   message of the error its external call failed with (Absent if the call
   did not fail, or has not completed). createdBefore tells of a status
   request whether, when it arrived, a create for its workspace id had
   already been answered with success. *)
NewReq(kind, userId, projectName, wid, message) ==
    [kind |-> kind, userId |-> userId, projectName |-> projectName,
     wid |-> wid, message |-> message, pc |-> "recv", ex |-> NoEx,
     status |-> 0, body |-> NoBody, repoCalls |-> 0, provCalls |-> 0,
     mode |-> Absent, ret |-> NoReturn, opError |-> Absent, createdBefore |-> FALSE]

Respond(r, status, body) == [r EXCEPT !.pc = "done", !.status = status, !.body = body]

\* express-rate-limit: the hit is counted, and the request is answered 429
\* without reaching the next handler when the count exceeds max. Only the
\* real server installs limiters.
\* A fault the properties must detect: the limiter lets one request more through
CreateLimitedLate == variant = "real" /\ createHits + 1 > CreateMax + 1

ApiLimited == variant = "real" /\ apiHits + 1 > ApiMax
CreateLimited == variant = "real" /\ createHits + 1 > CreateMax

ApiHitsNext == IF variant = "real" THEN CountHit(apiHits, ApiMax) ELSE apiHits
CreateHitsNext ==
    IF variant = "real" /\ ~ApiLimited THEN CountHit(createHits, CreateMax)
    ELSE createHits

\* app.use('/api/', limiter) in front of a handler
Gateway(r, handled) == IF ApiLimited THEN Respond(r, 429, NoBody) ELSE handled

\* A fault the properties must detect: && in place of ||
CreateInvalidBoth(userId, projectName) == Falsy(userId) /\ Falsy(projectName)

\* if (!userId || !projectName)
CreateInvalid(userId, projectName) == Falsy(userId) \/ Falsy(projectName)

\* A fault the properties must detect: message === undefined in place of !message
ChatInvalidUndefinedOnly(message) == message = Undefined

\* if (!message)
ChatInvalid(message) == Falsy(message)

\* POST /api/workspaces/create, up to the await of createUsingTemplate
CreateHandler(r) ==
    IF CreateInvalid(r.userId, r.projectName)
    THEN Respond(r, 400, Body("false", "userId and projectName are required",
                              Absent, Absent, Absent))
    ELSE [r EXCEPT !.wid = MakeWorkspaceId(r.userId, now),
                   !.pc = "repo", !.repoCalls = @ + 1]

HttpCreate(userId, projectName) ==
    /\ Len(reqs) < MaxReqs
    /\ LET r == NewReq("create", userId, projectName, Empty, Undefined) IN
       reqs' = Append(reqs, Gateway(r, IF CreateLimited THEN Respond(r, 429, NoBody)
                                       ELSE CreateHandler(r)))
    /\ apiHits' = ApiHitsNext
    /\ createHits' = CreateHitsNext
    /\ UNCHANGED <<hostVars, uiVars, now, worldVars, relayVars>>

\* catch block of the create endpoint
CreateFailed(r, err) == Respond(r, 500, Body("false", err, Absent, Absent, Absent))

\* res.json({success: true, workspaceId, ..., workspace})
CreateSucceeded(r, mode) ==
    [Respond(r, 200, Body("true", Absent, Absent, Absent, Absent)) EXCEPT !.mode = mode]

\* A fault the properties must detect: the endpoint without
\* if (!workspace.success) throw
CreateAfterWorkspaceUnchecked(r, completion, mode) ==
    LET q == [r EXCEPT !.ret = completion] IN
    IF completion.kind = "throw" THEN CreateFailed(q, completion.err)
    ELSE CreateSucceeded(q, mode)

\* What the create endpoint does with the value of devpod.createWorkspace:
\* if (!workspace.success) throw new Error(workspace.error), caught below
CreateAfterWorkspace(r, completion, mode) ==
    LET q == [r EXCEPT !.ret = completion] IN
    IF completion.kind = "throw" THEN CreateFailed(q, completion.err)
    ELSE IF completion.val.success # "true" THEN CreateFailed(q, completion.val.error)
    ELSE CreateSucceeded(q, mode)

\* createUsingTemplate completes; GitHub refuses a name it already holds.
\* On success the handler calls devpod.createWorkspace, which in the real
\* server starts the probe and in the mock one returns at once.
RepoCompletes(i, ok) ==
    /\ i \in 1..Len(reqs)
    /\ reqs[i].pc = "repo"
    /\ ok => reqs[i].wid \notin repos
    /\ repos' = IF ok THEN repos \cup {reqs[i].wid} ELSE repos
    /\ workspaces' = IF ok /\ variant = "mock" THEN Put(workspaces, reqs[i].wid, "running")
                     ELSE workspaces
    /\ reqs' = [reqs EXCEPT ![i] =
          IF ~ok THEN CreateFailed(@, "Repository creation failed")
          ELSE IF variant = "real" THEN [@ EXCEPT !.pc = "cprobe", !.provCalls = @ + 1]
          ELSE CreateAfterWorkspace([@ EXCEPT !.provCalls = @ + 1], CreateWorkspaceOk,
                                    Absent)]
    /\ UNCHANGED <<hostVars, uiVars, now, apiHits, createHits, pods, relayVars>>

\* createWorkspace: `which devpod` completes
CreateProbeCompletes(i, outcome) ==
    /\ i \in 1..Len(reqs)
    /\ reqs[i].pc = "cprobe"
    /\ outcome \in ProbeOutcomes
    /\ reqs' = [reqs EXCEPT ![i] =
          IF DevpodFound(outcome) THEN [@ EXCEPT !.pc = "up"]
          ELSE CreateAfterWorkspace(@, CreateWorkspaceOk, "mock")]
    /\ UNCHANGED <<hostVars, uiVars, now, apiHits, createHits, worldVars, relayVars>>

\* createWorkspace: `devpod up` completes
DevpodUpCompletes(i, ok) ==
    /\ i \in 1..Len(reqs)
    /\ reqs[i].pc = "up"
    /\ pods' = IF ok THEN Put(pods, reqs[i].wid, "Running") ELSE pods
    /\ reqs' = [reqs EXCEPT ![i] =
          IF ok THEN CreateAfterWorkspace(@, CreateWorkspaceOk, "devpod")
          ELSE CreateAfterWorkspace([@ EXCEPT !.opError = "Command failed: devpod up"],
                                    CreateWorkspaceCatch("Command failed: devpod up"),
                                    "devpod")]
    /\ UNCHANGED <<hostVars, uiVars, now, apiHits, createHits, repos, workspaces,
                   relayVars>>

\* res.json(result), or the endpoint's catch block
HttpAnswer(r, completion) ==
    LET q == [r EXCEPT !.ret = completion] IN
    IF completion.kind = "throw"
    THEN Respond(q, 500, Body("false", completion.err, Absent, Absent, Absent))
    ELSE Respond(q, 200, completion.val)

\* The external call of a manager method failed with `err`
Failed(r, err) == [r EXCEPT !.opError = err]

\* Workspace ids a client can name in a URL
UrlWids == {reqs[i].wid : i \in {j \in 1..Len(reqs) : reqs[j].kind = "create"
                                                     /\ reqs[j].wid # Empty}} \cup {W1}

\* A create for workspace id `wid` has been answered with success
CreatedOk(wid) ==
    \E j \in 1..Len(reqs) :
        /\ reqs[j].kind = "create" /\ reqs[j].wid = wid
        /\ reqs[j].status = 200 /\ reqs[j].ret.val.success = "true"

\* GET /api/workspaces/:workspaceId/status. The mock manager answers from
\* its Map without awaiting anything; the real one awaits `devpod list`.
HttpStatus(wid) ==
    /\ Len(reqs) < MaxReqs
    /\ wid \in UrlWids
    /\ LET r == [NewReq("status", Undefined, Undefined, wid, Undefined)
                   EXCEPT !.createdBefore = CreatedOk(wid)] IN
       reqs' = Append(reqs, Gateway(r,
                  IF variant = "real" THEN [r EXCEPT !.pc = "list"]
                  ELSE HttpAnswer(r, StatusFound(workspaces, wid))))
    /\ apiHits' = ApiHitsNext
    /\ UNCHANGED <<hostVars, uiVars, now, createHits, worldVars, relayVars>>

\* getWorkspaceStatus: `devpod list --output json` completes
ListCompletes(i, ok) ==
    /\ i \in 1..Len(reqs)
    /\ reqs[i].pc = "list"
    /\ ok => toolPresent
    /\ reqs' = [reqs EXCEPT ![i] =
          IF ok THEN HttpAnswer(@, StatusFound(pods, @.wid))
          ELSE HttpAnswer(Failed(@, "Command failed: devpod list"),
                          StatusCatch("Command failed: devpod list"))]
    /\ UNCHANGED <<hostVars, uiVars, now, apiHits, createHits, worldVars, relayVars>>

\* POST /api/workspaces/:workspaceId/stop and DELETE /api/workspaces/:workspaceId,
\* which only the real server has
HttpStopOrDelete(kind, wid) ==
    /\ variant = "real"
    /\ Len(reqs) < MaxReqs
    /\ wid \in UrlWids
    /\ LET r == NewReq(kind, Undefined, Undefined, wid, Undefined) IN
       reqs' = Append(reqs, Gateway(r, [r EXCEPT !.pc = kind]))
    /\ apiHits' = ApiHitsNext
    /\ UNCHANGED <<hostVars, uiVars, now, createHits, worldVars, relayVars>>

\* stopWorkspace: `devpod stop` completes; it fails for a workspace devpod
\* does not hold
StopCompletes(i, ok) ==
    /\ i \in 1..Len(reqs)
    /\ reqs[i].pc = "stop"
    /\ ok => toolPresent /\ reqs[i].wid \in DOMAIN pods
    /\ pods' = IF ok THEN Put(pods, reqs[i].wid, "Stopped") ELSE pods
    /\ reqs' = [reqs EXCEPT ![i] =
          IF ok THEN HttpAnswer(@, ManagerOk)
          ELSE HttpAnswer(Failed(@, "Command failed: devpod stop"),
                          StopCatch("Command failed: devpod stop"))]
    /\ UNCHANGED <<hostVars, uiVars, now, apiHits, createHits, repos, workspaces,
                   relayVars>>

\* deleteWorkspace: `devpod delete --force` completes
DeleteCompletes(i, ok) ==
    /\ i \in 1..Len(reqs)
    /\ reqs[i].pc = "delete"
    /\ ok => toolPresent
    /\ pods' = IF ok THEN Remove(pods, reqs[i].wid) ELSE pods
    /\ reqs' = [reqs EXCEPT ![i] =
          IF ok THEN HttpAnswer(@, ManagerOk)
          ELSE HttpAnswer(Failed(@, "Command failed: devpod delete"),
                          DeleteCatch("Command failed: devpod delete"))]
    /\ UNCHANGED <<hostVars, uiVars, now, apiHits, createHits, repos, workspaces,
                   relayVars>>

\* POST /api/workspaces/:workspaceId/chat, up to the first await of
\* executeInWorkspace
ChatHandler(r) ==
    IF ChatInvalid(r.message)
    THEN Respond(r, 400, Body("false", "message is required", Absent, Absent, Absent))
    ELSE [r EXCEPT !.pc = "exec", !.ex = ExecStart]

HttpChat(wid, message) ==
    /\ Len(reqs) < MaxReqs
    /\ LET r == NewReq("chat", Undefined, Undefined, wid, message) IN
       reqs' = Append(reqs, Gateway(r, ChatHandler(r)))
    /\ apiHits' = ApiHitsNext
    /\ UNCHANGED <<hostVars, uiVars, now, createHits, worldVars, relayVars>>

\* executeInWorkspace of an HTTP chat: `which devpod` completes
ChatProbeCompletes(i, outcome) ==
    /\ i \in 1..Len(reqs)
    /\ reqs[i].pc = "exec"
    /\ reqs[i].ex.pc = "probe"
    /\ outcome \in ProbeOutcomes
    /\ reqs' = [reqs EXCEPT ![i].ex = ExecAfterProbe(@, outcome)]
    /\ UNCHANGED <<hostVars, uiVars, now, apiHits, createHits, worldVars, relayVars>>

\* catch block of the chat endpoint
ChatAnswer(r, completion) ==
    LET q == [r EXCEPT !.ret = completion] IN
    IF completion.kind = "throw"
    THEN Respond(q, 500, Body("false", completion.err,
                              "I encountered an error. Please try again.", Absent, Absent))
    ELSE Respond(q, 200, completion.val)

\* executeInWorkspace of an HTTP chat: the subprocess or the HTTP call
\* completes, and the endpoint answers
ChatDispatchCompletes(i, outcome) ==
    /\ i \in 1..Len(reqs)
    /\ reqs[i].pc = "exec"
    /\ reqs[i].ex.pc \in {"ssh", "llm"}
    /\ outcome \in DispatchOutcomes(reqs[i].ex)
    /\ reqs' = [reqs EXCEPT ![i] =
          ChatAnswer([@ EXCEPT !.ex = ExecFinish(@, outcome),
                               !.opError = FailureOf(outcome)], ExecResult(outcome))]
    /\ UNCHANGED <<hostVars, uiVars, now, apiHits, createHits, worldVars, relayVars>>

\* The clock advances
Tick ==
    /\ now < MaxClock
    /\ now' = now + 1
    /\ UNCHANGED <<hostVars, uiVars, httpVars, worldVars, relayVars>>

----------------------------------------------------------------------------
(* The server behind its HTTP API *)

\* Requests the client has made in the current windows of the two rate
\* limiters when the behaviour starts (to any endpoint, to the create
\* endpoint): requests answered 400, which leave no other trace. The real
\* server's limiters have counted them.
PriorHits == {<<0, 0>>, <<CreateMax - 1, CreateMax - 1>>, <<ApiMax - 1, 0>>}

\* App.tsx: the useState initial values, before the mount effect has run
InitUi ==
    /\ workspaceStatus = "idle"
    /\ uiWorkspaceId = Undefined
    /\ wsConnection = FALSE
    /\ readyState = "none"
    /\ inputMessage = Empty
    /\ isTyping = FALSE
    /\ messages = <<>>
    /\ sendCalls = <<>>

InitCommon ==
    /\ InitUi
    /\ variant \in {"real", "mock"}
    /\ toolPresent \in (IF variant = "real" THEN BOOLEAN ELSE {FALSE})
    /\ now = 0
    /\ reqs = <<>>
    /\ repos = {}
    /\ pods = EmptyMap
    /\ workspaces = EmptyMap
    /\ sockState = [s \in Sockets |-> "new"]
    /\ connectionWorkspaceId = [s \in Sockets |-> Undefined]
    /\ activeConnections = EmptyMap
    /\ log = [s \in Sockets |-> <<>>]
    /\ tasks = {}

InitApi ==
    /\ InitCommon
    /\ \E h \in PriorHits :
          /\ apiHits = (IF variant = "real" THEN h[1] ELSE 0)
          /\ createHits = (IF variant = "real" THEN h[2] ELSE 0)
          /\ earlierCreates = h[2]

NextApi ==
    \/ \E u \in UserIds \cup {Undefined, Empty}, p \in ProjectNames \cup {Undefined, Empty} :
          HttpCreate(u, p)
    \/ \E i \in 1..MaxReqs, ok \in BOOLEAN : RepoCompletes(i, ok)
    \/ \E i \in 1..MaxReqs, o \in {"found", "missing", "failed"} : CreateProbeCompletes(i, o)
    \/ \E i \in 1..MaxReqs, ok \in BOOLEAN : DevpodUpCompletes(i, ok)
    \/ \E w \in UrlWids : HttpStatus(w)
    \/ \E i \in 1..MaxReqs, ok \in BOOLEAN : ListCompletes(i, ok)
    \/ \E k \in {"stop", "delete"}, w \in UrlWids : HttpStopOrDelete(k, w)
    \/ \E i \in 1..MaxReqs, ok \in BOOLEAN : StopCompletes(i, ok)
    \/ \E i \in 1..MaxReqs, ok \in BOOLEAN : DeleteCompletes(i, ok)
    \/ \E w \in UrlWids, m \in Messages \cup {Undefined, Empty} : HttpChat(w, m)
    \/ \E i \in 1..MaxReqs, o \in {"found", "missing", "failed"} : ChatProbeCompletes(i, o)
    \/ \E i \in 1..MaxReqs, o \in SshOutcomes \cup LlmOutcomes : ChatDispatchCompletes(i, o)
    \/ Tick

SpecApi == InitApi /\ [][NextApi]_vars

----------------------------------------------------------------------------
(* The WebSocket relay *)

(* log[s] holds, in order, what socket s has carried: the client's messages
   as the relay received them (dir "in") and the relay's messages (dir
   "out"). An outgoing message of a chat records the chat it answers in
   origin (the socket that received the chat and the chat's place in that
   socket's log) and the state of that chat's executeInWorkspace in ex. *)
NoOrigin == [sock |-> 0, at |-> 0]

InEvent(type, wid, message) ==
    [dir |-> "in", type |-> type, wid |-> wid, message |-> message,
     status |-> Absent, body |-> NoBody, origin |-> NoOrigin, ex |-> NoEx]

OutEvent(type, wid, status, body, origin, ex) ==
    [dir |-> "out", type |-> type, wid |-> wid, message |-> Undefined,
     status |-> status, body |-> body, origin |-> origin, ex |-> ex]

InCount(s) == Cardinality({i \in 1..Len(log[s]) : log[s][i].dir = "in"})

\* Client events the server has handled: socket messages, socket closes
\* and HTTP requests
Received == InCount(1) + InCount(2) + Len(reqs)
            + Cardinality({s \in Sockets : sockState[s] = "closed"})

\* ws.send on each of `evs` in turn; a socket that is no longer open
\* drops what is sent on it
Send(lg, s, evs) == IF sockState[s] = "open" THEN [lg EXCEPT ![s] = @ \o evs] ELSE lg

\* wss.on('connection'): let connectionWorkspaceId = null. Sockets are
\* numbered in the order they connect.
Connect(s) ==
    /\ sockState[s] = "new"
    /\ \A t \in Sockets : t < s => sockState[t] # "new"
    /\ sockState' = [sockState EXCEPT ![s] = "open"]
    /\ connectionWorkspaceId' = [connectionWorkspaceId EXCEPT ![s] = Undefined]
    /\ UNCHANGED <<hostVars, uiVars, now, httpVars, worldVars, activeConnections,
                   log, tasks>>

\* A fault the properties must detect: connected without the workspace id
ConnectedMessageNoId(wid) == OutEvent("connected", Undefined, Absent, NoBody, NoOrigin, NoEx)

\* JSON.stringify({ type: 'connected', workspaceId })
ConnectedMessage(wid) == OutEvent("connected", wid, Absent, NoBody, NoOrigin, NoEx)

\* JSON.stringify({ type: 'typing', status })
TypingMessage(status, origin) == OutEvent("typing", Undefined, status, NoBody, origin, NoEx)

\* JSON.stringify({ type: 'response', ...result, timestamp }): a key `type`
\* of the result comes after, and replaces, the literal one
ResponseMessage(result, origin, ex) ==
    OutEvent(IF result.rtype # Absent THEN result.rtype ELSE "response",
             Undefined, Absent, result, origin, ex)

\* catch block of the message handler
ErrorMessage(err, origin, ex) ==
    OutEvent("error", Undefined, Absent, Body(Absent, err, Absent, Absent, Absent),
             origin, ex)

\* activeConnections.set(workspaceId, ws), which only the real server does
Register(wid, s) == IF variant = "real" THEN Put(activeConnections, wid, s)
                    ELSE activeConnections

\* if (type === 'chat' && workspaceId && message)
ChatAccepted(type, wid, message) == type = "chat" /\ ~Falsy(wid) /\ ~Falsy(message)

\* ws.on('message') for data that JSON.parse and the destructuring accept
OnMessage(s, type, wid, message) ==
    /\ sockState[s] = "open"
    /\ Received < MaxEvents
    /\ LET at == Len(log[s]) + 1
           origin == [sock |-> s, at |-> at]
           received == [log EXCEPT ![s] = Append(@, InEvent(type, wid, message))]
       IN
       /\ connectionWorkspaceId' =
             IF type = "init" THEN [connectionWorkspaceId EXCEPT ![s] = wid]
             ELSE connectionWorkspaceId
       /\ activeConnections' = IF type = "init" THEN Register(wid, s) ELSE activeConnections
       /\ log' = IF type = "init" THEN Send(received, s, <<ConnectedMessage(wid)>>)
                 ELSE IF ChatAccepted(type, wid, message)
                      THEN Send(received, s, <<TypingMessage("true", origin)>>)
                      ELSE received
       /\ tasks' = IF ChatAccepted(type, wid, message)
                   THEN tasks \cup {[sock |-> s, at |-> at, wid |-> wid, ex |-> ExecStart]}
                   ELSE tasks
    /\ UNCHANGED <<hostVars, uiVars, now, httpVars, worldVars, sockState>>

\* ws.on('message') for data that JSON.parse or the destructuring rejects
OnMalformed(s) ==
    /\ sockState[s] = "open"
    /\ Received < MaxEvents
    /\ log' = Send([log EXCEPT ![s] = Append(@, InEvent("malformed", Undefined, Undefined))],
                   s, <<ErrorMessage("Unexpected token in JSON", NoOrigin, NoEx)>>)
    /\ UNCHANGED <<hostVars, uiVars, now, httpVars, worldVars, sockState,
                   connectionWorkspaceId, activeConnections, tasks>>

\* executeInWorkspace of a relayed chat: `which devpod` completes
RelayProbeCompletes(t, outcome) ==
    /\ t \in tasks
    /\ t.ex.pc = "probe"
    /\ outcome \in ProbeOutcomes
    /\ tasks' = (tasks \ {t}) \cup {[t EXCEPT !.ex = ExecAfterProbe(@, outcome)]}
    /\ UNCHANGED <<hostVars, uiVars, now, httpVars, worldVars, sockState,
                   connectionWorkspaceId, activeConnections, log>>

\* A fault the properties must detect: the reply goes to the socket
\* registered for the workspace id the chat names
ReplySocketByTable(t) ==
    IF t.wid \in DOMAIN activeConnections THEN activeConnections[t.wid] ELSE t.sock

\* The socket the chat branch sends on: the `ws` of the closure
ReplySocket(t) == t.sock

\* What the chat branch sends once executeInWorkspace has completed: the
\* response and typing:false, or from the catch block an error
ChatReplies(t, ex, completion) ==
    LET origin == [sock |-> t.sock, at |-> t.at] IN
    IF completion.kind = "throw" THEN <<ErrorMessage(completion.err, origin, ex)>>
    ELSE <<ResponseMessage(completion.val, origin, ex), TypingMessage("false", origin)>>

\* executeInWorkspace of a relayed chat: the subprocess or the HTTP call
\* completes, and the handler sends its replies
RelayDispatchCompletes(t, outcome) ==
    /\ t \in tasks
    /\ t.ex.pc \in {"ssh", "llm"}
    /\ outcome \in DispatchOutcomes(t.ex)
    /\ tasks' = tasks \ {t}
    /\ log' = Send(log, ReplySocket(t), ChatReplies(t, ExecFinish(t.ex, outcome),
                                                     ExecResult(outcome)))
    /\ UNCHANGED <<hostVars, uiVars, now, httpVars, worldVars, sockState,
                   connectionWorkspaceId, activeConnections>>

\* ws.on('close'), which only the real server installs:
\* if (connectionWorkspaceId) activeConnections.delete(connectionWorkspaceId)
Unregister(s) ==
    IF variant = "real" /\ ~Falsy(connectionWorkspaceId[s])
    THEN Remove(activeConnections, connectionWorkspaceId[s])
    ELSE activeConnections

Close(s) ==
    /\ sockState[s] = "open"
    /\ Received < MaxEvents
    /\ sockState' = [sockState EXCEPT ![s] = "closed"]
    /\ activeConnections' = Unregister(s)
    /\ UNCHANGED <<hostVars, uiVars, now, httpVars, worldVars,
                   connectionWorkspaceId, log, tasks>>

\* A chat over HTTP while the relay is in use
RelayHttpChat(wid, message) ==
    /\ Received < MaxEvents
    /\ HttpChat(wid, message)

\* The JSON messages clients send: init with or without a workspace id, chat
\* with or without its fields, and a type the relay does not know
ClientMessages ==
    {<<"init", w, Undefined>> : w \in SocketWids \cup {Undefined}}
    \cup {<<"chat", w, m>> : w \in SocketWids, m \in Messages}
    \cup {<<"chat", Undefined, <<"h", "i">>>>, <<"chat", W1, Empty>>,
          <<"ping", Undefined, Undefined>>}

InitRelay ==
    /\ InitCommon
    /\ apiHits = 0
    /\ createHits = 0
    /\ earlierCreates = 0

NextRelay ==
    \/ \E s \in Sockets : Connect(s)
    \/ \E s \in Sockets, d \in ClientMessages : OnMessage(s, d[1], d[2], d[3])
    \/ \E s \in Sockets : OnMalformed(s)
    \/ \E t \in tasks, o \in {"found", "missing", "failed"} : RelayProbeCompletes(t, o)
    \/ \E t \in tasks, o \in SshOutcomes \cup LlmOutcomes : RelayDispatchCompletes(t, o)
    \/ \E s \in Sockets : Close(s)
    \/ \E m \in Messages \cup {Empty} : RelayHttpChat(W1, m)
    \/ \E i \in 1..MaxReqs, o \in {"found", "missing", "failed"} : ChatProbeCompletes(i, o)
    \/ \E i \in 1..MaxReqs, o \in SshOutcomes \cup LlmOutcomes : ChatDispatchCompletes(i, o)

SpecRelay == InitRelay /\ [][NextRelay]_vars

----------------------------------------------------------------------------
(* The chat UI, frontend/src/App.tsx. Its server and its user are the
   environment: the create request is answered in any of the ways the
   server can answer it, the socket opens, fails and closes at any time, and
   while it is open any message of the relay may arrive. *)

Space == " "

RECURSIVE TrimStart(_)
TrimStart(str) ==
    IF str # <<>> /\ Head(str) = Space THEN TrimStart(Tail(str)) ELSE str

RECURSIVE TrimEnd(_)
TrimEnd(str) ==
    IF str # <<>> /\ str[Len(str)] = Space THEN TrimEnd(SubSeq(str, 1, Len(str) - 1))
    ELSE str

\* String.prototype.trim
Trim(str) == TrimEnd(TrimStart(str))

\* Texts the user leaves in the input box
InputTexts == {Empty, <<" ">>, <<"h", "i">>}

\* addMessage(role, content)
AddMessage(role, content) == Append(messages, [role |-> role, content |-> content])

\* A call ws.send(JSON.stringify({type, workspaceId, message})), and the
\* readyState of the socket when it is made
SendCall(type, wid, message) ==
    [type |-> type, wid |-> wid, message |-> message, readyState |-> readyState]

\* WebSocket.send hands the data to the connection only when the socket is
\* OPEN: it throws InvalidStateError while CONNECTING and discards the data
\* once the socket is CLOSING or CLOSED.
SendThrows == readyState = "CONNECTING"
Transmitted(call) == call.readyState = "OPEN"

\* useEffect(() => { initializeWorkspace() }, []), up to the await of fetch
Mount ==
    /\ workspaceStatus = "idle"
    /\ workspaceStatus' = "creating"
    /\ UNCHANGED <<serverVars, uiWorkspaceId, wsConnection, readyState, inputMessage,
                   isTyping, messages, sendCalls>>

\* What the create request comes to: a JSON body with success true, a JSON
\* body with success false, or a rejected fetch or response.json()
CreateOutcomes == {"created", "refused", "rejected"}

\* initializeWorkspace after the await: on success the state is set, the
\* WebSocket constructed and stored, and the welcome bubble added; anything
\* else ends in the catch block
CreateAnswered(outcome, wid) ==
    /\ workspaceStatus = "creating"
    /\ Len(messages) < MaxBubbles
    /\ IF outcome = "created"
       THEN /\ uiWorkspaceId' = wid
            /\ workspaceStatus' = "ready"
            /\ wsConnection' = TRUE
            /\ readyState' = "CONNECTING"
            /\ messages' = AddMessage("assistant", "Your development workspace is ready!")
       ELSE /\ workspaceStatus' = "error"
            /\ messages' = AddMessage("system", "Failed to create workspace")
            /\ UNCHANGED <<uiWorkspaceId, wsConnection, readyState>>
    /\ UNCHANGED <<serverVars, inputMessage, isTyping, sendCalls>>

\* ws.onopen
SocketOpens ==
    /\ wsConnection
    /\ readyState = "CONNECTING"
    /\ readyState' = "OPEN"
    /\ sendCalls' = Append(sendCalls,
                           [SendCall("init", uiWorkspaceId, Undefined) EXCEPT
                               !.readyState = "OPEN"])
    /\ UNCHANGED <<serverVars, workspaceStatus, uiWorkspaceId, wsConnection,
                   inputMessage, isTyping, messages>>

\* ws.onerror
SocketError ==
    /\ wsConnection
    /\ readyState \in {"CONNECTING", "OPEN"}
    /\ Len(messages) < MaxBubbles
    /\ messages' = AddMessage("system", "Connection error. Please refresh the page.")
    /\ UNCHANGED <<serverVars, workspaceStatus, uiWorkspaceId, wsConnection, readyState,
                   inputMessage, isTyping, sendCalls>>

\* ws.onclose: console.log only
SocketCloses ==
    /\ wsConnection
    /\ readyState \in {"CONNECTING", "OPEN"}
    /\ readyState' = "CLOSED"
    /\ UNCHANGED <<serverVars, workspaceStatus, uiWorkspaceId, wsConnection,
                   inputMessage, isTyping, messages, sendCalls>>

\* Messages of the relay: [type, status, success]
ServerMessages ==
    {[type |-> "typing", status |-> TRUE, success |-> FALSE],
     [type |-> "typing", status |-> FALSE, success |-> FALSE],
     [type |-> "response", status |-> FALSE, success |-> TRUE],
     [type |-> "response", status |-> FALSE, success |-> FALSE],
     [type |-> "error", status |-> FALSE, success |-> FALSE],
     [type |-> "connected", status |-> FALSE, success |-> FALSE],
     [type |-> "log", status |-> FALSE, success |-> FALSE]}

\* handleWebSocketMessage: what it sets isTyping to
TypingAfter(data) ==
    CASE data.type = "typing" -> data.status
      [] data.type \in {"response", "error"} -> FALSE
      [] OTHER -> isTyping

\* handleWebSocketMessage: the bubbles after it
MessagesAfter(data) ==
    CASE data.type = "response" /\ data.success -> AddMessage("assistant", "text")
      [] data.type = "response" /\ ~data.success -> AddMessage("system", "text")
      [] data.type = "error" -> AddMessage("system", "Error")
      [] OTHER -> messages

\* ws.onmessage
ServerMessage(data) ==
    /\ wsConnection
    /\ readyState = "OPEN"
    /\ Len(MessagesAfter(data)) <= MaxBubbles
    /\ isTyping' = TypingAfter(data)
    /\ messages' = MessagesAfter(data)
    /\ UNCHANGED <<serverVars, workspaceStatus, uiWorkspaceId, wsConnection, readyState,
                   inputMessage, sendCalls>>

\* disabled={workspaceStatus !== 'ready' || isTyping} of the textarea and of
\* the suggestion buttons
InputDisabled == workspaceStatus # "ready" \/ isTyping

\* onChange of the textarea, onClick of a suggestion button
TypeInput(text) ==
    /\ ~InputDisabled
    /\ text # inputMessage
    /\ inputMessage' = text
    /\ UNCHANGED <<serverVars, workspaceStatus, uiWorkspaceId, wsConnection, readyState,
                   isTyping, messages, sendCalls>>

\* if (!inputMessage.trim() || !wsConnection || workspaceStatus !== 'ready') return
SendReturnsEarly ==
    Trim(inputMessage) = Empty \/ ~wsConnection \/ workspaceStatus # "ready"

\* sendMessage, called by Enter in the textarea or by the send button: the
\* bubble is added, then the socket's send is called, and the input box is
\* cleared unless send threw
SendMessage ==
    /\ ~InputDisabled
    /\ ~SendReturnsEarly
    /\ Len(messages) < MaxBubbles
    /\ messages' = AddMessage("user", inputMessage)
    /\ sendCalls' = Append(sendCalls, SendCall("chat", uiWorkspaceId, inputMessage))
    /\ inputMessage' = IF SendThrows THEN inputMessage ELSE Empty
    /\ UNCHANGED <<serverVars, workspaceStatus, uiWorkspaceId, wsConnection, readyState,
                   isTyping>>

NextUi ==
    \/ Mount
    \/ \E o \in CreateOutcomes, w \in SocketWids : CreateAnswered(o, w)
    \/ SocketOpens
    \/ SocketError
    \/ SocketCloses
    \/ \E d \in ServerMessages : ServerMessage(d)
    \/ \E t \in InputTexts : TypeInput(t)
    \/ SendMessage

SpecUi == InitRelay /\ [][NextUi]_vars

----------------------------------------------------------------------------
(* Properties of the HTTP API, checked under SpecApi *)

Reqs(kind) == {i \in 1..Len(reqs) : reqs[i].kind = kind}

\* The handler of request i neither created a repository nor provisioned
NoCreation(i) == reqs[i].repoCalls = 0 /\ reqs[i].provCalls = 0

MissingFields(i) == Falsy(reqs[i].userId) \/ Falsy(reqs[i].projectName)

\* C1 as stated: a create request whose userId or projectName is missing or
\* empty is answered 400 with success=false, and neither the repository
\* creation nor the provisioning is invoked for it.
C1_Original ==
    \A i \in Reqs("create") :
        MissingFields(i) =>
            /\ reqs[i].status = 400
            /\ reqs[i].body.success = "false"
            /\ NoCreation(i)

\* C1 amended: such a request is answered 400 with success=false unless a
\* rate limiter of the real server has already answered it 429 because its
\* window is exhausted; either way nothing is created for it.
C1_MissingFieldsRejected ==
    \A i \in Reqs("create") :
        MissingFields(i) =>
            /\ NoCreation(i)
            /\ \/ reqs[i].status = 400 /\ reqs[i].body.success = "false"
               \/ /\ reqs[i].status = 429
                  /\ variant = "real"
                  /\ apiHits > ApiMax \/ createHits > CreateMax

C1_Witness ==
    /\ \E i \in Reqs("create") :
          MissingFields(i) /\ ~Falsy(reqs[i].userId) /\ reqs[i].status = 400
    /\ \E i \in Reqs("create") : reqs[i].repoCalls = 1

\* C2 as stated: an HTTP chat whose message is missing or empty is answered
\* 400 with success=false and executeInWorkspace is never invoked for it.
C2_Original ==
    \A i \in Reqs("chat") :
        Falsy(reqs[i].message) =>
            /\ reqs[i].status = 400
            /\ reqs[i].body.success = "false"
            /\ reqs[i].ex = NoEx

\* C2 amended: such a chat is answered 400 with success=false unless the
\* real server's API rate limiter has already answered it 429; either way
\* executeInWorkspace is not invoked (no probe, no subprocess, no LLM call).
C2_EmptyMessageRejected ==
    \A i \in Reqs("chat") :
        Falsy(reqs[i].message) =>
            /\ reqs[i].ex = NoEx
            /\ \/ reqs[i].status = 400 /\ reqs[i].body.success = "false"
               \/ reqs[i].status = 429 /\ variant = "real" /\ apiHits > ApiMax

C2_Witness ==
    /\ \E i \in Reqs("chat") : reqs[i].message = Empty /\ reqs[i].status = 400
    /\ \E i \in Reqs("chat") : reqs[i].ex.pc = "done"

\* C9 as stated: every manager operation whose external call fails returns
\* a value with success=false and error equal to the failure's message.
C9_Original ==
    \A i \in 1..Len(reqs) :
        reqs[i].opError # Absent =>
            /\ reqs[i].ret.kind = "return"
            /\ reqs[i].ret.val.success = "false"
            /\ reqs[i].ret.val.error = reqs[i].opError

\* C9 amended: when the provisioning, dispatch, list, stop or delete call
\* of a manager operation fails, the operation throws nothing and returns a
\* value whose error is the failure's message; the value has success=false,
\* except that getWorkspaceStatus returns {status:'error', error} with no
\* success key.
C9_FailureReturned ==
    \A i \in 1..Len(reqs) :
        reqs[i].opError # Absent =>
            /\ reqs[i].ret.kind = "return"
            /\ reqs[i].ret.val.error = reqs[i].opError
            /\ IF reqs[i].kind = "status"
               THEN reqs[i].ret.val.success = Absent /\ reqs[i].ret.val.wsStatus = "error"
               ELSE reqs[i].ret.val.success = "false"

C9_Witness ==
    /\ \E i \in Reqs("status") : reqs[i].opError # Absent
    /\ \E i \in 1..Len(reqs) : reqs[i].kind # "status" /\ reqs[i].opError # Absent

\* C10 as stated: any two creation requests that pass validation are
\* assigned distinct workspace ids.
C10_Original ==
    \A i, j \in Reqs("create") :
        (i # j /\ reqs[i].wid # Empty /\ reqs[j].wid # Empty) => reqs[i].wid # reqs[j].wid

----------------------------------------------------------------------------
(* Properties of chat dispatch and of the relay, checked under SpecRelay *)

\* Places in log[s] of the messages the relay sent for a chat
Replies(s) == {i \in 1..Len(log[s]) : log[s][i].dir = "out" /\ log[s][i].origin # NoOrigin}

\* Places in log[s] of the messages sent with the result of a chat's
\* executeInWorkspace
Results(s) == {i \in Replies(s) : log[s][i].type # "typing"}

\* Places in log[s] of the chat messages received
Chats(s) == {i \in 1..Len(log[s]) : log[s][i].dir = "in" /\ log[s][i].type = "chat"}

StepFailed(ex) == ex.probe = "failed" \/ ex.failure # Absent

\* C3 as stated: when any step of chat dispatch fails (probe, subprocess,
\* parsing, LLM call) the caller receives success=false: the HTTP endpoint
\* answers 200 with that payload and the relay sends it as `response`.
C3_Original ==
    /\ \A i \in Reqs("chat") :
          (reqs[i].ex.pc = "done" /\ StepFailed(reqs[i].ex)) =>
              reqs[i].status = 200 /\ reqs[i].body.success = "false"
    /\ \A s \in Sockets : \A i \in Results(s) :
          StepFailed(log[s][i].ex) =>
              log[s][i].type = "response" /\ log[s][i].body.success = "false"

\* C3 amended: executeInWorkspace never throws; when its subprocess, the
\* parsing of the subprocess output or its LLM call fails, the caller gets
\* success=false with the error's message, which the HTTP endpoint answers
\* with status 200 (never 500) and the relay sends as `response` (never as
\* `error`). A failed probe is not reported: the call goes on to the LLM.
C3_FailureReported ==
    /\ \A i \in Reqs("chat") :
          /\ reqs[i].status # 500
          /\ reqs[i].ret.kind # "throw"
          /\ reqs[i].ex.failure # Absent =>
                /\ reqs[i].status = 200
                /\ reqs[i].body.success = "false"
                /\ reqs[i].body.error = reqs[i].ex.failure
    /\ \A s \in Sockets : \A i \in Results(s) :
          log[s][i].ex.failure # Absent =>
                /\ log[s][i].type = "response"
                /\ log[s][i].body.success = "false"
                /\ log[s][i].body.error = log[s][i].ex.failure

C3_Witness ==
    /\ \E i \in Reqs("chat") : reqs[i].ex.failure # Absent
    /\ \E s \in Sockets : \E i \in Results(s) :
          log[s][i].ex.failure # Absent /\ log[s][i].ex.sshs = 1

\* C4: every typing and response message produced for a chat is sent on the
\* socket that sent the chat, whatever workspace id the chat names.
C4_OwnSocketOnly ==
    \A s \in Sockets : \A i \in Replies(s) :
        /\ log[s][i].origin.sock = s
        /\ log[s][i].origin.at \in Chats(s)

\* Both sockets sent init with different ids, and a chat of socket 1 that
\* names the id of socket 2 has been answered.
C4_Witness ==
    /\ ~Falsy(connectionWorkspaceId[1])
    /\ ~Falsy(connectionWorkspaceId[2])
    /\ connectionWorkspaceId[1] # connectionWorkspaceId[2]
    /\ \E i \in Results(1) :
          log[1][log[1][i].origin.at].wid = connectionWorkspaceId[2]

\* Socket s received {type:"init"} in this step
InitReceived(s) ==
    /\ Len(log'[s]) > Len(log[s])
    /\ log'[s][Len(log[s]) + 1].dir = "in"
    /\ log'[s][Len(log[s]) + 1].type = "init"

\* C5: when a socket sends {type:"init", workspaceId:W} the relay's next
\* message on that socket is {type:"connected", workspaceId:W}, and it sends
\* nothing to any other socket.
C5_InitEchoed ==
    [][\A s \in Sockets :
          InitReceived(s) =>
              /\ Len(log'[s]) = Len(log[s]) + 2
              /\ log'[s][Len(log[s]) + 2] =
                    OutEvent("connected", log'[s][Len(log[s]) + 1].wid, Absent, NoBody,
                             NoOrigin, NoEx)
              /\ \A t \in Sockets \ {s} : log'[t] = log[t]]_vars

C5_Witness ==
    \E s \in Sockets : \E i \in 1..Len(log[s]) :
        /\ log[s][i].dir = "in" /\ log[s][i].type = "init" /\ log[s][i].wid = W2
        /\ i < Len(log[s])
        /\ log[s][i + 1].type = "connected" /\ log[s][i + 1].wid = W2
        /\ \E t \in Sockets \ {s} : sockState[t] = "open"

\* C6 as stated: every socket the connection table holds is still open.
C6_Original ==
    \A w \in DOMAIN activeConnections : sockState[activeConnections[w]] = "open"

Calls(ex) == ex.probes + ex.sshs + ex.llms
Dispatches(ex) == ex.sshs + ex.llms

\* C7 as stated: each chat turn that was answered triggered exactly one
\* outbound subprocess or HTTP call.
C7_Original ==
    /\ \A i \in Reqs("chat") : reqs[i].ex.pc = "done" => Calls(reqs[i].ex) = 1
    /\ \A s \in Sockets : \A i \in Results(s) : Calls(log[s][i].ex) = 1

\* The executeInWorkspace invocations in progress or completed
Invocations ==
    {reqs[i].ex : i \in {j \in Reqs("chat") : reqs[j].ex # NoEx}}
    \cup {t.ex : t \in tasks}
    \cup UNION {{log[s][i].ex : i \in Results(s)} : s \in Sockets}

\* C7 amended: each accepted chat turn triggers exactly one dispatch call
\* (the devpod ssh subprocess or the LLM HTTP call), never a second one; in
\* the real server the `which devpod` probe subprocess precedes it, so a
\* turn there makes two outbound calls. The reply is sent only after the
\* dispatch call has completed, and once per turn.
C7_OneDispatch ==
    /\ \A ex \in Invocations :
          /\ ex.probes = (IF variant = "real" THEN 1 ELSE 0)
          /\ Dispatches(ex) = (IF ex.pc = "probe" THEN 0 ELSE 1)
    /\ \A i \in Reqs("chat") :
          (reqs[i].ex # NoEx /\ reqs[i].status # 0) => reqs[i].ex.pc = "done"
    /\ \A s \in Sockets : \A i \in Results(s) :
          /\ log[s][i].ex.pc = "done"
          /\ \A t \in tasks : <<t.sock, t.at>> # <<s, log[s][i].origin.at>>
          /\ \A j \in Results(s) : log[s][j].origin = log[s][i].origin => j = i

C7_Witness ==
    /\ variant = "real"
    /\ \E i \in Reqs("chat") : reqs[i].status = 200 /\ reqs[i].ex.llms = 1
    /\ \E s \in Sockets : \E i \in Results(s) : log[s][i].ex.sshs = 1

\* C8 as stated: every chat message received on a socket that is open
\* produces on that socket exactly one message of type `response`, preceded
\* by typing:true and followed by typing:false (checked once the chat's
\* handler is no longer awaiting its call).
C8_Original ==
    \A s \in Sockets : \A c \in Chats(s) :
        (sockState[s] = "open" /\ \A t \in tasks : <<t.sock, t.at>> # <<s, c>>) =>
            \E i \in Replies(s) :
                /\ log[s][i].origin = [sock |-> s, at |-> c]
                /\ log[s][i].type = "response"
                /\ \A j \in Replies(s) :
                      (log[s][j].origin = log[s][i].origin /\ log[s][j].type = "response")
                          => j = i
                /\ \E j \in Replies(s) :
                      /\ j < i /\ log[s][j].origin = log[s][i].origin
                      /\ log[s][j].type = "typing" /\ log[s][j].status = "true"
                /\ \E j \in Replies(s) :
                      /\ j > i /\ log[s][j].origin = log[s][i].origin
                      /\ log[s][j].type = "typing" /\ log[s][j].status = "false"

\* C8 for the chats that pass the guard of the chat branch and whose
\* handler has finished on an open socket: one message of type `response`.
C8_AcceptedChatAnswered ==
    \A s \in Sockets : \A c \in Chats(s) :
        (/\ sockState[s] = "open"
         /\ ChatAccepted("chat", log[s][c].wid, log[s][c].message)
         /\ \A t \in tasks : <<t.sock, t.at>> # <<s, c>>) =>
            \E i \in Replies(s) :
                /\ log[s][i].origin = [sock |-> s, at |-> c]
                /\ log[s][i].type = "response"

\* The types the protocol gives the relay's messages
ReplyTypes == {"connected", "typing", "response"}

\* C11 as stated: every message the relay sends has type connected, typing
\* or response, for any incoming message, malformed ones included, and for
\* any dispatch result.
C11_Original ==
    \A s \in Sockets : \A i \in 1..Len(log[s]) :
        log[s][i].dir = "out" => log[s][i].type \in ReplyTypes

\* C11 for the messages the relay sends for a chat that passed the guard
\* of the chat branch: each of them has type typing or response.
C11_ChatRepliesTyped ==
    \A s \in Sockets : \A i \in Replies(s) : log[s][i].type \in {"typing", "response"}

\* C12: within one call of executeInWorkspace the devpod ssh subprocess is
\* issued if and only if the probe of that call found the tool, and the LLM
\* HTTP call otherwise (tool missing, probe failed, or the mock manager,
\* which has no probe); never both, and a failure of the chosen call is not
\* followed by the other.
C12_BranchByProbe ==
    \A ex \in Invocations :
        IF ex.pc = "probe" THEN ex.sshs = 0 /\ ex.llms = 0
        ELSE /\ ex.sshs = (IF ex.probe = "found" THEN 1 ELSE 0)
             /\ ex.llms = (IF ex.probe = "found" THEN 0 ELSE 1)
             /\ ex.probe \in (IF variant = "real" THEN {"found", "missing", "failed"}
                              ELSE {Absent})

\* A call whose probe found the tool and whose subprocess failed, and a call
\* whose probe failed and whose LLM call failed, have both completed.
C12_Witness ==
    /\ \E ex \in Invocations :
          ex.pc = "done" /\ ex.probe = "found" /\ ex.sshs = 1 /\ ex.failure # Absent
    /\ \E ex \in Invocations :
          ex.pc = "done" /\ ex.probe = "failed" /\ ex.llms = 1 /\ ex.failure # Absent

----------------------------------------------------------------------------
(* Further properties of the HTTP API, checked under SpecApi *)

\* Create requests that reached the creation handler: those no limiter
\* answered
HandledCreates == {i \in Reqs("create") : reqs[i].status # 429}

C16_RepoKeptOnFailure ==
    variant = "real" =>
        \A i \in Reqs("create") :
            /\ reqs[i].provCalls <= reqs[i].repoCalls
            /\ reqs[i].pc = "repo" => reqs[i].provCalls = 0
            /\ reqs[i].provCalls = 1 => reqs[i].wid \in repos
            /\ reqs[i].body.error = "Repository creation failed" => reqs[i].provCalls = 0
            /\ reqs[i].opError # Absent =>
                  /\ reqs[i].status = 500
                  /\ reqs[i].body.success = "false"
                  /\ reqs[i].body.error = reqs[i].opError
                  /\ reqs[i].wid \in repos

\* A create of the real server whose `devpod up` failed has been answered,
\* and another whose repository creation failed.
C16_Witness ==
    /\ variant = "real"
    /\ \E i \in Reqs("create") :
          reqs[i].opError # Absent /\ reqs[i].status = 500 /\ reqs[i].provCalls = 1
    /\ \E i \in Reqs("create") : reqs[i].body.error = "Repository creation failed"

\* A stop or delete request for workspace id `wid` has arrived
StopOrDeleteAsked(wid) ==
    \E j \in 1..Len(reqs) : reqs[j].kind \in {"stop", "delete"} /\ reqs[j].wid = wid

\* C18 as stated: in the real server, a status query made after the create
\* of workspace W was answered with success (in devpod mode or in the
\* fallback mode), and with no stop or delete of W asked, gets from
\* getWorkspaceStatus a record of W, never {status:'not_found'} nor
\* {status:'error'}.
C18_Original ==
    variant = "real" =>
        \A i \in Reqs("status") :
            (/\ reqs[i].createdBefore
             /\ reqs[i].ret.kind = "return"
             /\ ~StopOrDeleteAsked(reqs[i].wid)) =>
                reqs[i].ret.val.wsStatus \notin {"not_found", "error"}

----------------------------------------------------------------------------
(* Further properties of the relay, checked under SpecRelay *)

\* Socket s closes in this step
ClosedNow(s) == sockState[s] = "open" /\ sockState'[s] = "closed"

\* C14 as stated: the close of a socket removes from the connection table
\* only an entry that refers to that socket, so that an open socket that
\* was the last to send init for a workspace id stays registered under it
\* when another socket closes.
C14_Original ==
    [][\A s \in Sockets :
          ClosedNow(s) =>
              \A w \in DOMAIN activeConnections :
                  activeConnections[w] # s =>
                      /\ w \in DOMAIN activeConnections'
                      /\ activeConnections'[w] = activeConnections[w]]_vars

\* Places in log[s] of the typing messages the relay sent
Typings(s) == {i \in 1..Len(log[s]) : log[s][i].dir = "out" /\ log[s][i].type = "typing"}

\* The place of the most recent of them
LastTyping(s) == CHOOSE i \in Typings(s) : \A j \in Typings(s) : j <= i

\* C15 as stated: on every socket, whenever the most recent typing message
\* the relay sent has status false, no chat of that socket is awaiting its
\* outbound call.
C15_Original ==
    \A s \in Sockets :
        (Typings(s) # {} /\ log[s][LastTyping(s)].status = "false") =>
            \A t \in tasks : t.sock # s

----------------------------------------------------------------------------
(* Properties of the chat UI, checked under SpecUi *)

ChatCalls == {k \in 1..Len(sendCalls) : sendCalls[k].type = "chat"}
UserBubbles == {k \in 1..Len(messages) : messages[k].role = "user"}

\* C17 as stated: the UI sends a chat on its socket only after the socket
\* has opened and its init has been sent, and never after the socket has
\* closed; so every user message added to the chat view was transmitted.
C17_Original ==
    /\ \A k \in ChatCalls :
          /\ sendCalls[k].readyState = "OPEN"
          /\ \E j \in 1..(k - 1) : sendCalls[j].type = "init"
    /\ Cardinality(UserBubbles)
          = Cardinality({k \in ChatCalls : Transmitted(sendCalls[k])})

====
